---- MODULE Spec2Model ----
(***************************************************************************)
(* A model of the Ultimate Tic-Tac-Toe engine: the generic win detector    *)
(* (Board::get_state), the InnerBoard, the RecursiveCell with its cached   *)
(* BoardState, the RecursiveBoard, and the GameState with available_moves  *)
(* and make_move; the parsers and constructors at the boundary:            *)
(* InnerBoard::from_str, the Player/char codec and CellPosition::new.      *)
(*                                                                         *)
(* Encodings: Option<T> is a sequence of length 0 (None) or 1 (Some(x));   *)
(* enum values are tuples whose first element is the variant name.         *)
(***************************************************************************)
EXTENDS Integers, Sequences, FiniteSets, TLC

VARIABLES
    board,          \* GameState.board: the RecursiveBoard (9 RecursiveCells)
    cell_to_play,   \* GameState.cell_to_play: Option<usize>
    player_turn,    \* GameState.player_turn: Player
    position,       \* argument of the last make_move call (Option)
    result,         \* what the last make_move returned: "Ok", "Err", "Panic", or "none"
    before,         \* the GameState the last make_move call started from (Option)
    inner,          \* a stand-alone InnerBoard handed to the win detector
    state,          \* BoardState returned by the last get_state call, or Unevaluated
    input,          \* argument of a conversion: a string, a char or a pair of indices
    output          \* what the conversion returned, or Unevaluated

vars == <<board, cell_to_play, player_turn, position, result, before, inner, state, input, output>>

----------------------------------------------------------------------------
(* Bounds and program constants *)

\* Number of cells of a board (both levels).
NumCells == 9

\* Capacity of the ArrayVec held by AvailableMoves.
MovesCapacity == 81

\* make_move is offered every leaf of outer cell 4 (the centre board) and the
\* first ExtraLeaves leaves of outer cell 0.
ExtraLeaves == 0

\* The chars handed to Player::try_from are the scalar values 0 .. MaxChar.
MaxChar == 255

\* The strings handed to InnerBoard::from_str include the prefixes of the doc
\* example followed by up to MaxTail arbitrary chars.
MaxTail == 2

\* CellPosition::new is called with indices 0 .. MaxIndex.
MaxIndex == 10

Cells == 0 .. (NumCells - 1)

----------------------------------------------------------------------------
(* Values *)

None == << >>
Some(x) == << x >>
Unwrap(opt) == opt[1]

Circle == "Circle"
Cross == "Cross"
Player == {Circle, Cross}

\* Option<Player>: what a leaf cell holds and what Cell::owner returns.
Owners == {None, Some(Circle), Some(Cross)}

Draw == << "Draw" >>
Winner(p) == << "Winner", p >>
InProgress == << "InProgress" >>
Over(r) == << "Over", r >>
BoardStates == {InProgress, Over(Draw), Over(Winner(Circle)), Over(Winner(Cross))}

\* No get_state call has been made yet (a value outside BoardState).
Unevaluated == << "Unevaluated" >>

\* Player::next with both arms returning the player itself.
Player_next_same(p) == p

\* Player::next
Player_next(p) == IF p = Circle THEN Cross ELSE Circle

\* Result<T, E>
Ok(x) == << "Ok", x >>
Err(e) == << "Err", e >>

\* A char is its Unicode scalar value. The chars the code names:
Char_O == 79       \* 'O'
Char_X == 88       \* 'X'
Char_dash == 45    \* '-'
\* and one the doc test of TryFrom<char> refuses:
Char_o == 111      \* 'o'

\* errors::InvalidPlayerChar
InvalidPlayerChar == << "InvalidPlayerChar" >>

\* impl From<&Player> for char
char_from_Player(p) == IF p = Circle THEN Char_O ELSE Char_X

\* TryFrom<char> for Player that also takes the lowercase glyphs.
Player_try_from_caseless(c) ==
    IF c = Char_O \/ c = Char_O + 32 THEN Ok(Circle)
    ELSE IF c = Char_X \/ c = Char_X + 32 THEN Ok(Cross)
    ELSE Err(InvalidPlayerChar)

\* impl TryFrom<char> for Player
Player_try_from(c) ==
    IF c = Char_O THEN Ok(Circle)
    ELSE IF c = Char_X THEN Ok(Cross)
    ELSE Err(InvalidPlayerChar)

\* CellPosition::new: the pair, once the range assertion has passed.
CellPosition(outer, inner_idx) == [outer_cell |-> outer, inner_cell |-> inner_idx]

----------------------------------------------------------------------------
(* Board::get_state, over the owners the 9 cells report *)

\* One row: cell group*3 has an owner and the three cells of the row share it.
RowWinner(owners, group) ==
    IF owners[group * 3] # None
       /\ \A c \in 0 .. 2 : owners[group * 3 + c] = owners[group * 3]
    THEN owners[group * 3]
    ELSE None

\* One column: cell group has an owner and the three cells of the column share it.
ColWinner(owners, group) ==
    IF owners[group] # None
       /\ \A c \in 0 .. 2 : owners[group + c * 3] = owners[group]
    THEN owners[group]
    ELSE None

\* The loop written "for group in (0..3).rev()": the groups visited last first.
RECURSIVE GroupLoop_reversed(_, _)
GroupLoop_reversed(owners, group) ==
    IF group >= 3 THEN None
    ELSE IF RowWinner(owners, 2 - group) # None THEN RowWinner(owners, 2 - group)
    ELSE IF ColWinner(owners, 2 - group) # None THEN ColWinner(owners, 2 - group)
    ELSE GroupLoop_reversed(owners, group + 1)

\* The loop "for group in 0..3": row group, then column group, then the next group.
RECURSIVE GroupLoop(_, _)
GroupLoop(owners, group) ==
    IF group >= 3 THEN None
    ELSE IF RowWinner(owners, group) # None THEN RowWinner(owners, group)
    ELSE IF ColWinner(owners, group) # None THEN ColWinner(owners, group)
    ELSE GroupLoop(owners, group + 1)

\* The diagonal check with the second diagonal (2, 4, 6) left out.
DiagWinner_main_only(owners) ==
    IF owners[4] # None /\ owners[4] = owners[0] /\ owners[4] = owners[8]
    THEN owners[4]
    ELSE None

\* Both diagonals go through the centre cell.
DiagWinner(owners) ==
    IF owners[4] # None
       /\ \/ (owners[4] = owners[0] /\ owners[4] = owners[8])
          \/ (owners[4] = owners[2] /\ owners[4] = owners[6])
    THEN owners[4]
    ELSE None

\* The draw check with its test inverted: is_some() for is_none().
IsDraw_inverted(owners) == \A c \in Cells : owners[c] = None

\* The draw check with its loop stopping one cell early (0..8 for 0..9).
IsDraw_short(owners) == \A c \in 0 .. 7 : owners[c] # None

\* The draw check: no cell reports an absent owner.
IsDraw(owners) == \A c \in Cells : owners[c] # None

get_state(owners) ==
    IF GroupLoop(owners, 0) # None THEN Over(Winner(Unwrap(GroupLoop(owners, 0))))
    ELSE IF DiagWinner(owners) # None THEN Over(Winner(Unwrap(DiagWinner(owners))))
    ELSE IF IsDraw(owners) THEN Over(Draw)
    ELSE InProgress

----------------------------------------------------------------------------
(* Cells and boards *)

\* Cell::owner for Option<Player> that reports no owner whatever the leaf holds.
Leaf_owner_absent(leaf) == None

\* Cell::owner for Option<Player>: the leaf itself.
Leaf_owner(leaf) == leaf

\* RecursiveCell::owner with the Draw arm giving the first player instead of None.
RecursiveCell_owner_draw_owned(rc) ==
    IF rc.state = InProgress THEN None
    ELSE IF rc.state = Over(Draw) THEN Some(Circle)
    ELSE Some(rc.state[2][2])

\* Cell::owner for RecursiveCell: read from the cached state.
RecursiveCell_owner(rc) ==
    IF rc.state = InProgress THEN None
    ELSE IF rc.state = Over(Draw) THEN None
    ELSE Some(rc.state[2][2])

\* Cell::is_available (default method): there is no owner.
is_available(owner) == owner = None

\* InnerBoard::new
InnerBoard_new == [c \in Cells |-> None]

\* impl From<[Option<Player>; 9]> for InnerBoard, from the array written as a tuple.
InnerBoard_from(array) == [c \in Cells |-> array[c + 1]]

\* InnerBoard as a Board<Option<Player>>: get_state over its leaves.
InnerBoard_get_state(b) == get_state([c \in Cells |-> Leaf_owner(b[c])])

\* RecursiveCell::new
RecursiveCell_new == [board |-> InnerBoard_new, state |-> InProgress]

\* impl From<InnerBoard> for RecursiveCell
RecursiveCell_from(b) == [board |-> b, state |-> InnerBoard_get_state(b)]

\* RecursiveCell::set_cell without the refresh of the cached state.
RecursiveCell_set_cell_stale(rc, cell, owner) ==
    [board |-> [rc.board EXCEPT ![cell] = owner], state |-> rc.state]

\* RecursiveCell::set_cell: write the leaf, then refresh the cached state.
RecursiveCell_set_cell(rc, cell, owner) ==
    LET b == [rc.board EXCEPT ![cell] = owner]
    IN  [board |-> b, state |-> InnerBoard_get_state(b)]

\* RecursiveBoard::new
RecursiveBoard_new == [c \in Cells |-> RecursiveCell_new]

\* impl From<[InnerBoard; 9]> for RecursiveBoard
RecursiveBoard_from(boards) == [c \in Cells |-> RecursiveCell_from(boards[c])]

\* RecursiveBoard::set_cell that writes into a copy of the cell: the board
\* itself stays as it was.
RecursiveBoard_set_cell_on_copy(rb, pos, owner) == rb

\* RecursiveBoard::set_cell with the two indices of the position swapped.
RecursiveBoard_set_cell_swapped(rb, pos, owner) ==
    [rb EXCEPT ![pos.inner_cell] = RecursiveCell_set_cell(rb[pos.inner_cell], pos.outer_cell, owner)]

\* RecursiveBoard::set_cell
RecursiveBoard_set_cell(rb, pos, owner) ==
    [rb EXCEPT ![pos.outer_cell] = RecursiveCell_set_cell(rb[pos.outer_cell], pos.inner_cell, owner)]

\* RecursiveBoard as a Board<RecursiveCell>: get_state over the cached owners.
RecursiveBoard_get_state(rb) == get_state([c \in Cells |-> RecursiveCell_owner(rb[c])])

\* Board::available_cells of an InnerBoard: the indices, in order, of its available leaves.
InnerBoard_available_cells(b) ==
    SelectSeq([k \in 1 .. NumCells |-> k - 1], LAMBDA c : is_available(Leaf_owner(b[c])))

\* Board::available_cells of a RecursiveBoard: the indices, in order, of its available cells.
RecursiveBoard_available_cells(rb) ==
    SelectSeq([k \in 1 .. NumCells |-> k - 1], LAMBDA c : is_available(RecursiveCell_owner(rb[c])))

----------------------------------------------------------------------------
(* InnerBoard::from_str. A &str is the sequence of its chars. *)

\* char::len_utf8: the number of bytes of a char in a str.
len_utf8(c) ==
    IF c < 128 THEN 1 ELSE IF c < 2048 THEN 2 ELSE IF c < 65536 THEN 3 ELSE 4

\* str::len: the length of a str in bytes.
RECURSIVE str_len(_)
str_len(s) == IF s = << >> THEN 0 ELSE len_utf8(Head(s)) + str_len(Tail(s))

\* errors::InnerBoardFromStrError
InvalidLength == << "InvalidLength" >>
InvalidChars == << "InvalidChars" >>

\* impl From<InvalidPlayerChar> for InnerBoardFromStrError (used by `?`)
InnerBoardFromStrError_from(e) == InvalidChars

\* The loop of from_str with the `continue` of '-' missing: the placeholder
\* goes to Player::try_from like every other char.
RECURSIVE from_str_loop_no_placeholder(_, _, _)
from_str_loop_no_placeholder(s, i, board_array) ==
    IF i >= Len(s) THEN Ok(InnerBoard_from(board_array))
    ELSE LET r == Player_try_from(s[i + 1])
         IN  IF r[1] = "Err" THEN Err(InnerBoardFromStrError_from(r[2]))
             ELSE from_str_loop_no_placeholder(
                      s, i + 1, [board_array EXCEPT ![i + 1] = Some(r[2])])

\* for (i, c) in s.chars().enumerate(), from the i-th char on; board_array is
\* the array written as a tuple (board_array[i] of the code is element i + 1).
\* A str of 9 bytes has at most 9 chars, so i stays below 9.
RECURSIVE from_str_loop(_, _, _)
from_str_loop(s, i, board_array) ==
    IF i >= Len(s) THEN Ok(InnerBoard_from(board_array))
    ELSE IF s[i + 1] = Char_dash THEN from_str_loop(s, i + 1, board_array)
    ELSE LET r == Player_try_from(s[i + 1])
         IN  IF r[1] = "Err" THEN Err(InnerBoardFromStrError_from(r[2]))
             ELSE from_str_loop(s, i + 1, [board_array EXCEPT ![i + 1] = Some(r[2])])

\* InnerBoard::from_str
InnerBoard_from_str(s) ==
    IF str_len(s) # NumCells
    THEN Err(InvalidLength)
    ELSE from_str_loop(s, 0, [k \in 1 .. NumCells |-> None])

----------------------------------------------------------------------------
(* GameState *)

\* Every CellPosition, outer cell by outer cell and leaf by leaf: the order in
\* which the nested iterators of available_moves visit the board.
AllPositions ==
    SelectSeq([k \in 1 .. (NumCells * NumCells) |->
                  CellPosition((k - 1) \div NumCells, (k - 1) % NumCells)],
              LAMBDA p : TRUE)

\* The leaf a position addresses (Index<CellPosition> for RecursiveBoard).
LeafAt(rb, pos) == rb[pos.outer_cell].board[pos.inner_cell]

\* The assertion of available_moves fails: the forced cell is not available.
available_moves_panics(rb, ctp) ==
    ctp # None /\ ~is_available(RecursiveCell_owner(rb[Unwrap(ctp)]))

\* MovesIn that yields every leaf of outer cell idx, owned or not.
MovesIn_every_leaf(rb, idx) ==
    SubSeq(AllPositions, idx * NumCells + 1, idx * NumCells + NumCells)

\* MovesIn with CellPosition::new(idx, idx): the outer index used for both.
MovesIn_same_index(rb, idx) ==
    [k \in 1 .. Len(MovesIn_every_leaf(rb, idx)) |-> CellPosition(idx, idx)]

\* cell.board().available_cells().map(|c| CellPosition::new(idx, c.0)):
\* the positions of the available leaves of outer cell idx, in order.
MovesIn(rb, idx) ==
    SelectSeq(SubSeq(AllPositions, idx * NumCells + 1, idx * NumCells + NumCells),
              LAMBDA p : is_available(Leaf_owner(rb[idx].board[p.inner_cell])))

\* flat_map over every RecursiveCell, available or not.
RECURSIVE FlatMapMoves_every_cell(_, _)
FlatMapMoves_every_cell(rb, idx) ==
    IF idx >= NumCells THEN << >>
    ELSE MovesIn(rb, idx) \o FlatMapMoves_every_cell(rb, idx + 1)

\* self.board.available_cells().flat_map(...): the moves of every available
\* RecursiveCell from index idx on, in order.
RECURSIVE FlatMapMoves(_, _)
FlatMapMoves(rb, idx) ==
    IF idx >= NumCells THEN << >>
    ELSE IF is_available(RecursiveCell_owner(rb[idx]))
    THEN MovesIn(rb, idx) \o FlatMapMoves(rb, idx + 1)
    ELSE FlatMapMoves(rb, idx + 1)

\* available_moves that looks at the leaves only: every free leaf of every
\* sub-board, whether the sub-board is available or not.
available_moves_any_board(rb, ctp) ==
    SelectSeq(AllPositions, LAMBDA p : is_available(Leaf_owner(LeafAt(rb, p))))

\* GameState::available_moves, as the sequence the iterators yield.
\* Some(cell): the available leaves of that cell's InnerBoard.
\* None: for each available RecursiveCell, its available leaves.
available_moves(rb, ctp) ==
    IF ctp # None
    THEN MovesIn(rb, Unwrap(ctp))
    ELSE FlatMapMoves(rb, 0)

\* ArrayVec::contains
Contains(s, x) == \E k \in 1 .. Len(s) : s[k] = x

\* GameState::new with Cross as the first player.
GameState_new_cross_first ==
    [board |-> RecursiveBoard_new, cell_to_play |-> None, player_turn |-> Cross]

\* GameState::new
GameState_new ==
    [board |-> RecursiveBoard_new, cell_to_play |-> None, player_turn |-> Circle]

\* make_move that only checks that the addressed outer cell is available,
\* not that the leaf is free.
make_move_with_no_leaf_check(gs, pos, moves) ==
    IF ~is_available(RecursiveCell_owner(gs.board[pos.outer_cell]))
    THEN [gs |-> gs, result |-> "Err"]
    ELSE [gs |-> [board |-> RecursiveBoard_set_cell(gs.board, pos, Some(gs.player_turn)),
                  cell_to_play |-> gs.cell_to_play,
                  player_turn |-> Player_next(gs.player_turn)],
          result |-> "Ok"]

\* make_move that refuses every move once the game is decided.
make_move_with_game_over_check(gs, pos, moves) ==
    IF available_moves_panics(gs.board, gs.cell_to_play) \/ Len(moves) > MovesCapacity
    THEN [gs |-> gs, result |-> "Panic"]
    ELSE IF RecursiveBoard_get_state(gs.board) # InProgress \/ ~Contains(moves, pos)
    THEN [gs |-> gs, result |-> "Err"]
    ELSE [gs |-> [board |-> RecursiveBoard_set_cell(gs.board, pos, Some(gs.player_turn)),
                  cell_to_play |-> gs.cell_to_play,
                  player_turn |-> Player_next(gs.player_turn)],
          result |-> "Ok"]

\* make_move that hands the turn to the other player before it looks at the
\* position, so that a refused move passes the turn too.
make_move_with_turn_passed_first(gs, pos, moves) ==
    IF available_moves_panics(gs.board, gs.cell_to_play) \/ Len(moves) > MovesCapacity
    THEN [gs |-> gs, result |-> "Panic"]
    ELSE IF ~Contains(moves, pos)
    THEN [gs |-> [gs EXCEPT !.player_turn = Player_next(gs.player_turn)],
          result |-> "Err"]
    ELSE [gs |-> [board |-> RecursiveBoard_set_cell(gs.board, pos, Some(gs.player_turn)),
                  cell_to_play |-> gs.cell_to_play,
                  player_turn |-> Player_next(gs.player_turn)],
          result |-> "Ok"]

\* The body of GameState::make_move once its call of available_moves has
\* returned `moves`: the state after the call and the value returned.
make_move_with(gs, pos, moves) ==
    IF available_moves_panics(gs.board, gs.cell_to_play) \/ Len(moves) > MovesCapacity
    THEN [gs |-> gs, result |-> "Panic"]
    ELSE IF ~Contains(moves, pos)
    THEN [gs |-> gs, result |-> "Err"]
    ELSE [gs |-> [board |-> RecursiveBoard_set_cell(gs.board, pos, Some(gs.player_turn)),
                  cell_to_play |-> gs.cell_to_play,
                  player_turn |-> Player_next(gs.player_turn)],
          result |-> "Ok"]

\* GameState::make_move as a function of the state and the position.
make_move(gs, pos) ==
    make_move_with(gs, pos, available_moves(gs.board, gs.cell_to_play))

\* GameState::get_state
GameState_get_state(gs) == RecursiveBoard_get_state(gs.board)

\* The GameState held in the variables.
Game == [board |-> board, cell_to_play |-> cell_to_play, player_turn |-> player_turn]

----------------------------------------------------------------------------
(* Specification of a game: GameState::new, then make_move calls *)

\* The positions offered to make_move.
MoveInputs ==
    {CellPosition(4, i) : i \in Cells}
        \cup {CellPosition(0, i) : i \in 0 .. (ExtraLeaves - 1)}

Init ==
    /\ board = GameState_new.board
    /\ cell_to_play = GameState_new.cell_to_play
    /\ player_turn = GameState_new.player_turn
    /\ position = None
    /\ result = "none"
    /\ before = None
    /\ input = None
    /\ output = Unevaluated
    /\ inner = InnerBoard_new
    /\ state = Unevaluated

\* One make_move call. `moves` is what the call's available_moves returns in
\* the current state (it is the same for every position offered).
MakeMove(pos, moves) ==
    \E r \in {make_move_with(Game, pos, moves)} :
        /\ board' = r.gs.board
        /\ cell_to_play' = r.gs.cell_to_play
        /\ player_turn' = r.gs.player_turn
        /\ position' = Some(pos)
        /\ result' = r.result
        /\ before' = Some(Game)
        /\ UNCHANGED <<inner, state, input, output>>

Next ==
    \E moves \in {available_moves(board, cell_to_play)} :
        \E pos \in MoveInputs : MakeMove(pos, moves)

Spec == Init /\ [][Next]_vars

----------------------------------------------------------------------------
(* Specification of the win detector: get_state applied to any InnerBoard *)

InitDetector ==
    /\ inner \in [Cells -> Owners]
    /\ state = Unevaluated
    /\ board = GameState_new.board
    /\ cell_to_play = GameState_new.cell_to_play
    /\ player_turn = GameState_new.player_turn
    /\ position = None
    /\ result = "none"
    /\ before = None
    /\ input = None
    /\ output = Unevaluated

\* inner.get_state()
InnerGetState ==
    /\ state' = InnerBoard_get_state(inner)
    /\ UNCHANGED <<board, cell_to_play, player_turn, position, result, before, inner, input, output>>

NextDetector == InnerGetState

SpecDetector == InitDetector /\ [][NextDetector]_vars

----------------------------------------------------------------------------
(* Specification of the RecursiveBoard: built by new() or from 9 InnerBoards, *)
(* then get_state                                                             *)

X == Some(Cross)
O == Some(Circle)

\* The decided boards of the test get_board_state: a draw, a win of Cross
\* (middle row) and a win of Circle (left column).
SampleBoards ==
    << InnerBoard_from(<< O, O, X, X, X, O, O, X, O >>),
       InnerBoard_from(<< O, X, None, X, X, X, O, None, None >>),
       InnerBoard_from(<< O, None, X, O, X, None, O, X, None >>) >>

InitRec ==
    /\ \/ board = RecursiveBoard_new
       \/ \E f \in [Cells -> 1 .. Len(SampleBoards)] :
              board = RecursiveBoard_from([c \in Cells |-> SampleBoards[f[c]]])
    /\ state = Unevaluated
    /\ cell_to_play = None
    /\ player_turn = Circle
    /\ position = None
    /\ result = "none"
    /\ before = None
    /\ input = None
    /\ output = Unevaluated
    /\ inner = InnerBoard_new

\* board.get_state()
RecGetState ==
    /\ state' = RecursiveBoard_get_state(board)
    /\ UNCHANGED <<board, cell_to_play, player_turn, position, result, before, inner, input, output>>

NextRec == RecGetState

SpecRec == InitRec /\ [][NextRec]_vars

----------------------------------------------------------------------------
(* Properties of a game *)

\* The position of the last make_move call.
LastPosition == Unwrap(position)

\* The set of the positions a sequence of moves holds.
MoveSet(moves) == {moves[k] : k \in 1 .. Len(moves)}

\* C1: after every successful make_move(position), cell_to_play is
\* Some(position.inner_cell) if the RecursiveCell at that index is still
\* available after the move, and None otherwise.
C1_ForcedCellFollowsMove ==
    result = "Ok" =>
        cell_to_play =
            IF is_available(RecursiveCell_owner(board[LastPosition.inner_cell]))
            THEN Some(LastPosition.inner_cell)
            ELSE None

\* C2: after a successful make_move into inner index i, if outer board i is
\* still undecided then available_moves() holds only positions of outer cell i;
\* if it is decided, available_moves() holds the empty leaves of all the
\* undecided outer boards.
C2_NextMovesFollowForcedBoard ==
    (result = "Ok" /\ ~available_moves_panics(board, cell_to_play)) =>
        LET i == LastPosition.inner_cell
            moves == available_moves(board, cell_to_play)
        IN  IF board[i].state = InProgress
            THEN \A k \in 1 .. Len(moves) : moves[k].outer_cell = i
            ELSE MoveSet(moves) =
                    {p \in MoveSet(AllPositions) :
                        /\ board[p.outer_cell].state = InProgress
                        /\ LeafAt(board, p) = None}

\* The GameState the last make_move call started from.
Before == Unwrap(before)

\* C3: make_move returns an error exactly when the position is not in the
\* available_moves() of the state it is called in, and a failed make_move
\* leaves the board, the active player and the forced outer cell unchanged.
C3_IllegalMoveRejected ==
    result # "none" =>
        /\ (result = "Err") <=>
              ~Contains(available_moves(Before.board, Before.cell_to_play), LastPosition)
        /\ (result = "Err") =>
              /\ board = Before.board
              /\ player_turn = Before.player_turn
              /\ cell_to_play = Before.cell_to_play

\* A move was refused in a game already under way: the last call addressed an
\* occupied leaf or a leaf of a won sub-board.
C3_Witness ==
    /\ result = "Err"
    /\ \/ LeafAt(board, LastPosition) # None
       \/ RecursiveCell_owner(board[LastPosition.outer_cell]) # None

\* C5: a successful make_move(position) sets the addressed leaf to the player
\* who was active before the call, and then the other player becomes active;
\* the first move of a new game is made by Circle.
C5_MoveMarksAndAlternates ==
    result = "Ok" =>
        /\ LeafAt(board, LastPosition) = Some(Before.player_turn)
        /\ player_turn # Before.player_turn
        /\ player_turn \in Player
        /\ (Before.board = RecursiveBoard_new => LeafAt(board, LastPosition) = Some(Circle))

\* Both players have moved, and the last move was accepted.
C5_Witness ==
    /\ result = "Ok"
    /\ \E p \in MoveSet(AllPositions) : LeafAt(board, p) = Some(Circle)
    /\ \E p \in MoveSet(AllPositions) : LeafAt(board, p) = Some(Cross)

----------------------------------------------------------------------------
(* Properties of the RecursiveBoard and of the win detector *)

\* The 8 lines of a board: 3 rows, 3 columns, 2 diagonals.
Lines ==
    { {0, 1, 2}, {3, 4, 5}, {6, 7, 8},
      {0, 3, 6}, {1, 4, 7}, {2, 5, 8},
      {0, 4, 8}, {2, 4, 6} }

\* Player p owns every cell of line l.
LineOwnedBy(owners, l, p) == \A c \in l : owners[c] = Some(p)

\* The lines fully owned by one player.
OwnedLines(owners) == {l \in Lines : \E p \in Player : LineOwnedBy(owners, l, p)}

\* The owners the cells of the RecursiveBoard report.
OuterOwners == [c \in Cells |-> RecursiveCell_owner(board[c])]

\* C4: for each of the 9 RecursiveCells, the cached state equals the state
\* the win detector computes from the cell's InnerBoard.
C4_CacheConsistent ==
    \A c \in Cells : board[c].state = InnerBoard_get_state(board[c].board)

\* A move has just decided the centre board while it still has free leaves,
\* and the cache followed.
C4_Witness ==
    /\ result = "Ok"
    /\ LastPosition.outer_cell = 4
    /\ board[4].state \in {Over(Winner(Circle)), Over(Winner(Cross))}
    /\ \E c \in Cells : board[4].board[c] = None

\* C6: a RecursiveCell is available if and only if its cached state is
\* InProgress, so available_cells() of the RecursiveBoard yields exactly the
\* outer cells whose sub-game is undecided.
C6_AvailableIffUndecided ==
    /\ \A c \in Cells :
          is_available(RecursiveCell_owner(board[c])) <=> (board[c].state = InProgress)
    /\ RecursiveBoard_available_cells(board) =
          SelectSeq([k \in 1 .. NumCells |-> k - 1], LAMBDA c : board[c].state = InProgress)

\* C7: a RecursiveBoard with no line owned by one player and with every
\* sub-game won or drawn has the state Over(Draw).
C7_AllDecidedIsDraw ==
    ( /\ state # Unevaluated
      /\ OwnedLines(OuterOwners) = {}
      /\ \A c \in Cells : board[c].state # InProgress )
        => state = Over(Draw)

\* C8: for a grid in which exactly one of the 8 lines is fully owned by one
\* player p, get_state returns Over(Winner(p)).
C8_SingleLineWins ==
    state # Unevaluated =>
        \A p \in Player :
            ( /\ Cardinality(OwnedLines(inner)) = 1
              /\ \A l \in OwnedLines(inner) : LineOwnedBy(inner, l, p) )
                => state = Over(Winner(p))

\* The only owned line is the second diagonal, the last line the detector looks at.
C8_Witness ==
    /\ OwnedLines(inner) = { {2, 4, 6} }
    /\ state = Over(Winner(Cross))

\* C9: for a grid in which all 9 cells have an owner and no line is fully
\* owned by one player, get_state returns Over(Draw).
C9_FullBoardIsDraw ==
    ( /\ state # Unevaluated
      /\ \A c \in Cells : inner[c] # None
      /\ OwnedLines(inner) = {} )
        => state = Over(Draw)

\* The drawn board of the tests, evaluated.
C9_Witness ==
    /\ inner = InnerBoard_from(<< O, O, X, X, X, O, O, X, O >>)
    /\ state = Over(Draw)

\* C10: for a grid with no line fully owned by one player and at least one
\* available cell, get_state returns InProgress.
C10_OpenBoardInProgress ==
    ( /\ state # Unevaluated
      /\ OwnedLines(inner) = {}
      /\ \E c \in Cells : is_available(Leaf_owner(inner[c])) )
        => state = InProgress

\* A board with a single free cell, the last one, and no line: still in progress.
C10_Witness ==
    /\ inner = InnerBoard_from(<< O, O, X, X, X, O, O, X, None >>)
    /\ state = InProgress

----------------------------------------------------------------------------
(* Properties of the rules of play *)

\* C11: make_move never succeeds for a position whose outer cell holds a
\* sub-board already decided (won or drawn), even when that sub-board still
\* has empty leaves; so the cached state of a RecursiveCell, once it is not
\* InProgress, is the same after every later make_move call.
C11_DecidedBoardIsClosed ==
    result # "none" =>
        /\ result = "Ok" => Before.board[LastPosition.outer_cell].state = InProgress
        /\ \A c \in Cells :
              Before.board[c].state # InProgress => board[c].state = Before.board[c].state

\* A move into a free leaf of a decided sub-board has just been refused.
C11_Witness ==
    /\ result = "Err"
    /\ Before.board[LastPosition.outer_cell].state # InProgress
    /\ LeafAt(Before.board, LastPosition) = None
    /\ board[LastPosition.outer_cell].state = Before.board[LastPosition.outer_cell].state

\* The positions (o, inner) with the sub-game of outer cell o undecided and
\* leaf inner of its InnerBoard without owner.
OpenPositions(rb) ==
    {p \in MoveSet(AllPositions) :
        /\ rb[p.outer_cell].state = InProgress
        /\ Leaf_owner(LeafAt(rb, p)) = None}

\* C12: in every reachable GameState whose cell_to_play is None,
\* available_moves() holds exactly the positions (o, inner) such that the
\* sub-game of outer cell o is undecided and leaf inner of the InnerBoard at o
\* has no owner, each of them once.
C12_FreeModeMoves ==
    cell_to_play = None =>
        LET moves == available_moves(board, cell_to_play)
        IN  /\ MoveSet(moves) = OpenPositions(board)
            /\ Len(moves) = Cardinality(OpenPositions(board))

\* No forced cell, and the centre board is won with leaves still free: its
\* free leaves are not among the moves, the free leaves of the others are.
C12_Witness ==
    /\ cell_to_play = None
    /\ result = "Ok"
    /\ board[4].state \in {Over(Winner(Circle)), Over(Winner(Cross))}
    /\ \E c \in Cells : board[4].board[c] = None
    /\ Len(available_moves(board, cell_to_play)) = (NumCells - 1) * NumCells

\* C15: a freshly constructed GameState has all 81 leaves empty, all 9 cached
\* states InProgress, Circle as the active player, no forced outer cell,
\* get_state() = InProgress and available_moves() equal to all 81 positions
\* (o, i) with o, i in 0..8.
C15_FreshGame ==
    result = "none" =>
        /\ \A p \in MoveSet(AllPositions) : LeafAt(board, p) = None
        /\ \A c \in Cells : board[c].state = InProgress
        /\ player_turn = Circle
        /\ cell_to_play = None
        /\ GameState_get_state(Game) = InProgress
        /\ MoveSet(available_moves(board, cell_to_play)) =
              {CellPosition(o, i) : o \in 0 .. 8, i \in 0 .. 8}
        /\ Len(available_moves(board, cell_to_play)) = 81

\* The game as GameState::new leaves it: no make_move call yet.
C15_Witness ==
    /\ result = "none"
    /\ before = None
    /\ Game = GameState_new
    /\ Cardinality(MoveSet(available_moves(board, cell_to_play))) = 81

----------------------------------------------------------------------------
(* Specification of the Player/char codec: a char and a Player, then one of *)
(* the conversions                                                          *)

Chars == 0 .. MaxChar

InitCodec ==
    /\ input \in [c : Chars, p : Player]
    /\ output = Unevaluated
    /\ board = GameState_new.board
    /\ cell_to_play = GameState_new.cell_to_play
    /\ player_turn = GameState_new.player_turn
    /\ position = None
    /\ result = "none"
    /\ before = None
    /\ inner = InnerBoard_new
    /\ state = Unevaluated

\* Player::try_from(c)
TryFromChar ==
    /\ output' = << "try_from", Player_try_from(input.c) >>
    /\ UNCHANGED <<board, cell_to_play, player_turn, position, result, before, inner, state, input>>

\* char::from(&p)
CharFromPlayer ==
    /\ output' = << "char", char_from_Player(input.p) >>
    /\ UNCHANGED <<board, cell_to_play, player_turn, position, result, before, inner, state, input>>

\* Player::try_from(char::from(&p))
RoundTrip ==
    /\ output' = << "round_trip", Player_try_from(char_from_Player(input.p)) >>
    /\ UNCHANGED <<board, cell_to_play, player_turn, position, result, before, inner, state, input>>

NextCodec == TryFromChar \/ CharFromPlayer \/ RoundTrip

SpecCodec == InitCodec /\ [][NextCodec]_vars

\* C18: the Player/char codec round-trips and is strict: for each player p,
\* Player::try_from(char::from(&p)) is Ok(p), with Circle <-> 'O' and
\* Cross <-> 'X', and Player::try_from(c) is the InvalidPlayerChar error for
\* every char c other than 'O' and 'X' (lowercase 'o' and 'x' included).
C18_CodecRoundTripsAndIsStrict ==
    /\ output[1] = "round_trip" => output[2] = Ok(input.p)
    /\ output[1] = "char" =>
          /\ (input.p = Circle) <=> (output[2] = Char_O)
          /\ (input.p = Cross) <=> (output[2] = Char_X)
    /\ output[1] = "try_from" =>
          /\ (input.c = Char_O) <=> (output[2] = Ok(Circle))
          /\ (input.c = Char_X) <=> (output[2] = Ok(Cross))
          /\ (input.c \notin {Char_O, Char_X}) <=> (output[2] = Err(InvalidPlayerChar))

\* Player::try_from('o') has returned the error.
C18_Witness ==
    /\ input.c = Char_o
    /\ output = << "try_from", Err(InvalidPlayerChar) >>

----------------------------------------------------------------------------
(* Specification of the parser: a string, then InnerBoard::from_str, then   *)
(* get_state of the board parsed                                            *)

\* The chars a board string is made of.
Glyphs == {Char_O, Char_X, Char_dash}

\* Chars that are no glyph: an ASCII letter, and the last char of Chars,
\* which takes two bytes in a str.
ForeignChars == {Char_o, MaxChar}

\* The string of the doc example of from_str, "OX-XXXO--".
DocExample ==
    << Char_O, Char_X, Char_dash, Char_X, Char_X, Char_X, Char_O, Char_dash, Char_dash >>

\* Every string of at most n chars over the set chars.
StringsUpTo(n, chars) == UNION {[1 .. k -> chars] : k \in 0 .. n}

\* The strings parsed: every string of 9 glyphs; every prefix of the doc
\* example followed by at most MaxTail chars, glyphs or not; the doc example
\* with one char replaced by a foreign one.
ParseInputs ==
    [1 .. NumCells -> Glyphs]
        \cup {SubSeq(DocExample, 1, keep) \o tail :
                 keep \in 0 .. NumCells,
                 tail \in StringsUpTo(MaxTail, Glyphs \cup ForeignChars)}
        \cup {[DocExample EXCEPT ![k] = c] : k \in 1 .. NumCells, c \in ForeignChars}

InitParse ==
    /\ input \in ParseInputs
    /\ output = Unevaluated
    /\ board = GameState_new.board
    /\ cell_to_play = GameState_new.cell_to_play
    /\ player_turn = GameState_new.player_turn
    /\ position = None
    /\ result = "none"
    /\ before = None
    /\ inner = InnerBoard_new
    /\ state = Unevaluated

\* InnerBoard::from_str(input)
FromStr ==
    /\ output = Unevaluated
    /\ output' = InnerBoard_from_str(input)
    /\ UNCHANGED <<board, cell_to_play, player_turn, position, result, before, inner, state, input>>

\* let board = InnerBoard::from_str(input).unwrap(); board.get_state()
ParsedGetState ==
    /\ output[1] = "Ok"
    /\ inner' = output[2]
    /\ state' = InnerBoard_get_state(output[2])
    /\ UNCHANGED <<board, cell_to_play, player_turn, position, result, before, input, output>>

NextParse == FromStr \/ ParsedGetState

SpecParse == InitParse /\ [][NextParse]_vars

\* The leaf a glyph stands for.
LeafOf(c) == IF c = Char_O THEN Some(Circle) ELSE IF c = Char_X THEN Some(Cross) ELSE None

\* C16: parsing an InnerBoard from a string of exactly 9 chars drawn from
\* 'O', 'X', '-' succeeds and yields the board whose leaf i (row-major) is
\* Circle for 'O', Cross for 'X' and empty for '-' at char i; "OX-XXXO--"
\* yields [O,X,-,X,X,X,O,-,-], whose state is Over(Winner(Cross)).
C16_GlyphStringParses ==
    /\ ( /\ output # Unevaluated
         /\ Len(input) = 9
         /\ \A k \in 1 .. Len(input) : input[k] \in Glyphs )
          => output = Ok([c \in Cells |-> LeafOf(input[c + 1])])
    /\ (output # Unevaluated /\ input = DocExample)
          => /\ output = Ok(InnerBoard_from(<< O, X, None, X, X, X, O, None, None >>))
             /\ state # Unevaluated => state = Over(Winner(Cross))

\* The doc example has been parsed and its board evaluated.
C16_Witness ==
    /\ input = DocExample
    /\ output[1] = "Ok"
    /\ inner = output[2]
    /\ state = Over(Winner(Cross))

\* C17: parsing an InnerBoard from a string fails with InvalidLength whenever
\* the string's length is not exactly 9 (whatever its chars), and fails with
\* InvalidChars whenever the length is 9 and some char is none of 'O', 'X',
\* '-'; the two errors are distinct values and no other input fails. The
\* length is the number of chars: the format is one char per leaf.
C17_ParseErrors ==
    output # Unevaluated =>
        /\ Len(input) # 9 => output = Err(InvalidLength)
        /\ (Len(input) = 9 /\ \E k \in 1 .. Len(input) : input[k] \notin Glyphs)
              => output = Err(InvalidChars)
        /\ Err(InvalidLength) # Err(InvalidChars)
        /\ output[1] = "Err" =>
              (Len(input) # 9 \/ \E k \in 1 .. Len(input) : input[k] \notin Glyphs)

----------------------------------------------------------------------------
(* Specification of CellPosition::new: two indices, then the constructor *)

\* The constructor with `||` in its assertion: one index in range is enough.
CellPosition_new_either(outer, inner_idx) ==
    IF outer < NumCells \/ inner_idx < NumCells
    THEN << "Returned", CellPosition(outer, inner_idx) >>
    ELSE << "Panic" >>

\* CellPosition::new with its assertion: the value returned, or the panic.
CellPosition_new(outer, inner_idx) ==
    IF outer < NumCells /\ inner_idx < NumCells
    THEN << "Returned", CellPosition(outer, inner_idx) >>
    ELSE << "Panic" >>

\* usize values, up to the bound.
Indices == 0 .. MaxIndex

InitPosition ==
    /\ input \in [outer : Indices, inner : Indices]
    /\ output = Unevaluated
    /\ board = GameState_new.board
    /\ cell_to_play = GameState_new.cell_to_play
    /\ player_turn = GameState_new.player_turn
    /\ position = None
    /\ result = "none"
    /\ before = None
    /\ inner = InnerBoard_new
    /\ state = Unevaluated

\* CellPosition::new(input.outer, input.inner)
NewPosition ==
    /\ output' = CellPosition_new(input.outer, input.inner)
    /\ UNCHANGED <<board, cell_to_play, player_turn, position, result, before, inner, state, input>>

NextPosition == NewPosition

SpecPosition == InitPosition /\ [][NextPosition]_vars

\* C19: CellPosition::new(outer, inner) succeeds, storing both indices
\* unchanged, exactly when outer < 9 and inner < 9; for any other pair the
\* construction fails: no CellPosition is returned, clamped or not.
C19_PositionInRangeOrRejected ==
    output # Unevaluated =>
        /\ (output[1] = "Returned") <=> (input.outer < 9 /\ input.inner < 9)
        /\ output[1] = "Returned" =>
              /\ output[2].outer_cell = input.outer
              /\ output[2].inner_cell = input.inner
        /\ output[1] # "Returned" => output = << "Panic" >>

\* new(9, 0) has been refused and new(8, 8) would be accepted: the first
\* index out of range, next to the last one in range.
C19_Witness ==
    /\ input = [outer |-> 9, inner |-> 0]
    /\ output = << "Panic" >>
    /\ CellPosition_new(8, 8)[1] = "Returned"

----------------------------------------------------------------------------
(* Specification of an endgame: the game a script of legal moves leads to,  *)
(* then make_move calls                                                     *)

\* 20 moves from a new game, Circle first: Circle takes the top rows of
\* boards 0 and 1, Cross those of boards 3 and 4; then board 2 gets
\* O O - / X X - and board 5 gets X X - / O O -.
EndgameScript ==
    << CellPosition(0, 0), CellPosition(3, 0), CellPosition(0, 1), CellPosition(3, 1),
       CellPosition(0, 2), CellPosition(3, 2), CellPosition(1, 0), CellPosition(4, 0),
       CellPosition(1, 1), CellPosition(4, 1), CellPosition(1, 2), CellPosition(4, 2),
       CellPosition(2, 0), CellPosition(5, 0), CellPosition(2, 1), CellPosition(5, 1),
       CellPosition(5, 3), CellPosition(2, 3), CellPosition(5, 4), CellPosition(2, 4) >>

\* The GameState after the make_move calls script[k], script[k + 1], ... on gs,
\* up to the first call that is refused.
RECURSIVE Replay(_, _, _)
Replay(gs, script, k) ==
    IF k > Len(script) THEN gs
    ELSE IF make_move(gs, script[k]).result # "Ok" THEN gs
    ELSE Replay(make_move(gs, script[k]).gs, script, k + 1)

\* The positions offered to make_move in the endgame: the last leaf of each
\* row of boards 2 and 5.
EndgameInputs == {CellPosition(o, i) : o \in {2, 5}, i \in {2, 5, 8}}

InitEndgame ==
    /\ \E gs \in {Replay(GameState_new, EndgameScript, 1)} :
          /\ board = gs.board
          /\ cell_to_play = gs.cell_to_play
          /\ player_turn = gs.player_turn
    /\ position = None
    /\ result = "none"
    /\ before = None
    /\ input = None
    /\ output = Unevaluated
    /\ inner = InnerBoard_new
    /\ state = Unevaluated

NextEndgame ==
    \E moves \in {available_moves(board, cell_to_play)} :
        \E pos \in EndgameInputs : MakeMove(pos, moves)

SpecEndgame == InitEndgame /\ [][NextEndgame]_vars

\* The players who own a complete line of a board.
LineOwners(owners) == {p \in Player : \E l \in Lines : LineOwnedBy(owners, l, p)}

\* The owners the leaves of the InnerBoard of outer cell c report.
InnerOwners(c) == [i \in Cells |-> Leaf_owner(board[c].board[i])]

\* C20 as claimed: in every state reachable from a new game through
\* make_move, no board (any of the 9 InnerBoards, or the RecursiveBoard read
\* through the owners of its cells) holds complete lines of two different
\* players.
C20_NoRivalLines ==
    /\ \A c \in Cells : Cardinality(LineOwners(InnerOwners(c))) <= 1
    /\ Cardinality(LineOwners(OuterOwners)) <= 1

\* C20 as amended: no InnerBoard ever holds complete lines of two different
\* players, and the RecursiveBoard holds none after a move accepted while
\* get_state() was InProgress.
C20_NoRivalLinesWhilePlaying ==
    /\ \A c \in Cells : Cardinality(LineOwners(InnerOwners(c))) <= 1
    /\ (result = "Ok" /\ GameState_get_state(Before) = InProgress)
          => Cardinality(LineOwners(OuterOwners)) <= 1

\* Circle has just won board 2 and with it the top row of the outer board,
\* in a game that was in progress; board 2 still has free leaves.
C20_Witness ==
    /\ result = "Ok"
    /\ GameState_get_state(Before) = InProgress
    /\ LineOwners(InnerOwners(2)) = {Circle}
    /\ LineOwners(OuterOwners) = {Circle}
    /\ \E i \in Cells : board[2].board[i] = None

----------------------------------------------------------------------------
(* Further properties of the win detector *)

\* The owner of line l if one player owns all of it, None otherwise.
LineWinner(owners, l) ==
    IF \E p \in Player : LineOwnedBy(owners, l, p)
    THEN Some(CHOOSE p \in Player : LineOwnedBy(owners, l, p))
    ELSE None

\* The first owner the lines of the sequence ls give, None if none does.
RECURSIVE FirstWinner(_, _)
FirstWinner(owners, ls) ==
    IF ls = << >> THEN None
    ELSE IF LineWinner(owners, Head(ls)) # None THEN LineWinner(owners, Head(ls))
    ELSE FirstWinner(owners, Tail(ls))

\* The lines in the order rows, columns, diagonals.
RowsColumnsDiagonals ==
    << {0, 1, 2}, {3, 4, 5}, {6, 7, 8},
       {0, 3, 6}, {1, 4, 7}, {2, 5, 8},
       {0, 4, 8}, {2, 4, 6} >>

\* The detector that checks the 3 rows, then the 3 columns, then the 2
\* diagonals, then the draw (no cell without owner).
RowsFirstOutcome(owners) ==
    IF FirstWinner(owners, RowsColumnsDiagonals) # None
    THEN Over(Winner(Unwrap(FirstWinner(owners, RowsColumnsDiagonals))))
    ELSE IF \A c \in Cells : owners[c] # None THEN Over(Draw)
    ELSE InProgress

\* C21: for every one of the 3^9 grids of owners, get_state (row 0, column 0,
\* row 1, column 1, row 2, column 2, the diagonals, the draw) returns what
\* the detector that checks all rows, then all columns, then the diagonals,
\* then the draw returns.
C21_InterleavedEqualsRowsFirst ==
    state # Unevaluated => state = RowsFirstOutcome(inner)

\* Two players each own a row: Circle the top one, Cross the bottom one, and
\* both detectors name Circle.
C21_Witness ==
    /\ LineOwnedBy(inner, {0, 1, 2}, Circle)
    /\ LineOwnedBy(inner, {6, 7, 8}, Cross)
    /\ state = Over(Winner(Circle))
    /\ RowsFirstOutcome(inner) = state

----------------------------------------------------------------------------
(* Further properties of a game *)

\* Board rb2 differs from board rb1 at most in the leaf at pos and in the
\* cached state of outer cell pos.outer_cell.
OnlyTouches(rb1, rb2, pos) ==
    /\ \A c \in Cells \ {pos.outer_cell} : rb2[c] = rb1[c]
    /\ \A i \in Cells \ {pos.inner_cell} :
          rb2[pos.outer_cell].board[i] = rb1[pos.outer_cell].board[i]

\* C22: a successful make_move((o, i)), and a set_cell at (o, i) with any
\* owner, change only the addressed leaf and the cached state of outer cell
\* o: every other leaf of every InnerBoard and the cached state of every
\* other RecursiveCell are as before.
C22_MoveTouchesOneLeaf ==
    /\ result = "Ok" => OnlyTouches(Before.board, board, LastPosition)
    /\ \A pos \in MoveSet(AllPositions), owner \in Owners :
          LET rb == RecursiveBoard_set_cell(board, pos, owner)
          IN  /\ OnlyTouches(board, rb, pos)
              /\ LeafAt(rb, pos) = owner

\* A move has just won board 2: its leaf and the cache of outer cell 2
\* changed, next to five boards that hold marks of their own.
C22_Witness ==
    /\ result = "Ok"
    /\ LastPosition.outer_cell = 2
    /\ Before.board[2].state = InProgress
    /\ board[2].state # InProgress
    /\ LeafAt(Before.board, LastPosition) = None
    /\ LeafAt(board, LastPosition) # None

\* C23: make_move fails for every position whose leaf already has an owner;
\* so along every sequence of make_move calls a leaf once owned by player p
\* is owned by p ever after: no call overwrites or clears a leaf.
C23_OwnedLeafIsKept ==
    result # "none" =>
        /\ LeafAt(Before.board, LastPosition) # None => result = "Err"
        /\ \A p \in MoveSet(AllPositions) :
              LeafAt(Before.board, p) # None => LeafAt(board, p) = LeafAt(Before.board, p)

\* A move into an owned leaf of a sub-board still in progress has just been
\* refused; the leaf belongs to the player who is not to move.
C23_Witness ==
    /\ result = "Err"
    /\ board[LastPosition.outer_cell].state = InProgress
    /\ LeafAt(board, LastPosition) = Some(Player_next(player_turn))
    /\ LeafAt(Before.board, LastPosition) = LeafAt(board, LastPosition)

----------------------------------------------------------------------------
(* Further properties of the RecursiveBoard *)

\* C24: for every RecursiveCell, owner() is Some(p) if and only if its cached
\* state is Over(Winner(p)); it is None when the cache is InProgress or
\* Over(Draw), so a drawn sub-board counts for no player's line of the outer
\* board: a winner get_state names owns a line of sub-boards cached as won
\* by that player.
C24_OwnerIffWon ==
    /\ \A c \in Cells :
          /\ \A p \in Player :
                (RecursiveCell_owner(board[c]) = Some(p)) <=> (board[c].state = Over(Winner(p)))
          /\ board[c].state \in {InProgress, Over(Draw)} => RecursiveCell_owner(board[c]) = None
    /\ \A p \in Player :
          state = Over(Winner(p)) =>
              \E l \in Lines : \A c \in l : board[c].state = Over(Winner(p))

\* The top row of the outer board is Circle, Circle, draw: it is nobody's
\* line, and get_state names Cross, who owns a line elsewhere.
C24_Witness ==
    /\ board[0].state = Over(Winner(Circle))
    /\ board[1].state = Over(Winner(Circle))
    /\ board[2].state = Over(Draw)
    /\ RecursiveCell_owner(board[2]) = None
    /\ state = Over(Winner(Cross))

----------------------------------------------------------------------------
(* Properties of the end of a game *)

\* C25: the engine does not stop accepting moves when the game is over: the
\* legality of a move never depends on the state of the whole game. A
\* make_move call succeeds exactly when its position is in available_moves(),
\* that is when its leaf is free and its sub-board has no winner, whatever
\* get_state() returned before the call. (That a decided game with an
\* accepted move is reachable is C25_Witness.)
C25_LegalityIgnoresOutcome ==
    result # "none" =>
        /\ (result = "Ok") <=>
              Contains(available_moves(Before.board, Before.cell_to_play), LastPosition)
        /\ (result = "Ok") <=>
              /\ LeafAt(Before.board, LastPosition) = None
              /\ RecursiveCell_owner(Before.board[LastPosition.outer_cell]) = None

\* get_state() named a winner, and the make_move call made after that was
\* accepted.
C25_Witness ==
    /\ result = "Ok"
    /\ GameState_get_state(Before) \in {Over(Winner(Circle)), Over(Winner(Cross))}
    /\ Contains(available_moves(Before.board, Before.cell_to_play), LastPosition)
    /\ LeafAt(board, LastPosition) = Some(Before.player_turn)

\* C26: in every reachable GameState available_moves() lists each legal
\* position (a free leaf of a sub-board without winner) exactly once and has
\* at most 81 entries, so collecting it into the ArrayVec of capacity 81
\* never overflows and no make_move call panics.
C26_MovesFitCapacity ==
    /\ \A moves \in {available_moves(board, cell_to_play)} :
          /\ Cardinality(MoveSet(moves)) = Len(moves)
          /\ MoveSet(moves) =
                {p \in MoveSet(AllPositions) :
                    /\ LeafAt(board, p) = None
                    /\ RecursiveCell_owner(board[p.outer_cell]) = None}
          /\ Len(moves) <= 81
    /\ result # "Panic"

\* The new game, whose 81 moves fill the ArrayVec, has been left by an
\* accepted move: 80 moves remain.
C26_Witness ==
    /\ result = "Ok"
    /\ Len(available_moves(Before.board, Before.cell_to_play)) = MovesCapacity
    /\ Len(available_moves(board, cell_to_play)) = MovesCapacity - 1

\* C27 as claimed: once get_state() returns Over(r), it returns the same
\* Over(r) after every further make_move call.
C27_ResultNeverChanges ==
    (result # "none" /\ GameState_get_state(Before) # InProgress)
        => GameState_get_state(Game) = GameState_get_state(Before)

\* C27 as amended: once get_state() returns Over(r) it never returns
\* InProgress again, and the result changes only when an accepted move gives
\* the mover a complete line of sub-boards that comes before every line of
\* the other player in the order rows, columns, diagonals: from then on
\* get_state() names the mover instead of the other player.
C27_DecidedStaysDecided ==
    result # "none" =>
        \A was \in {GameState_get_state(Before)}, now \in {GameState_get_state(Game)} :
            was # InProgress =>
                /\ now # InProgress
                /\ now # was =>
                      /\ result = "Ok"
                      /\ was = Over(Winner(player_turn))
                      /\ now = Over(Winner(Before.player_turn))
                      /\ FirstWinner(OuterOwners, RowsColumnsDiagonals) = Some(Before.player_turn)

\* Cross had won the middle row of the outer board; then Circle completed
\* the top row, and get_state() names Circle.
C27_Witness ==
    /\ result = "Ok"
    /\ GameState_get_state(Before) = Over(Winner(Cross))
    /\ GameState_get_state(Game) = Over(Winner(Circle))
    /\ LineOwners(OuterOwners) = {Circle, Cross}

----------------------------------------------------------------------------
(* Specification of the last moves of a game: the game a script of legal     *)
(* moves leads to, in which only the centre board is still open, then        *)
(* make_move calls                                                           *)

\* 29 moves from a new game, Circle first: Circle takes the top rows of
\* boards 0, 2, 5 and 7, Cross those of boards 1, 3, 6 and 8 (no line of
\* sub-boards for either); then the centre board gets O O X / X - O.
LastMovesScript ==
    << CellPosition(0, 0), CellPosition(1, 0), CellPosition(0, 1), CellPosition(1, 1),
       CellPosition(0, 2), CellPosition(1, 2), CellPosition(2, 0), CellPosition(3, 0),
       CellPosition(2, 1), CellPosition(3, 1), CellPosition(2, 2), CellPosition(3, 2),
       CellPosition(5, 0), CellPosition(6, 0), CellPosition(5, 1), CellPosition(6, 1),
       CellPosition(5, 2), CellPosition(6, 2), CellPosition(7, 0), CellPosition(8, 0),
       CellPosition(7, 1), CellPosition(8, 1), CellPosition(7, 2), CellPosition(8, 2),
       CellPosition(4, 0), CellPosition(4, 2), CellPosition(4, 1), CellPosition(4, 3),
       CellPosition(4, 5) >>

\* The positions offered to make_move: every leaf of the centre board, and
\* the last leaf of board 0, which Circle has won.
LastMovesInputs == {CellPosition(4, i) : i \in Cells} \cup {CellPosition(0, 8)}

InitLastMoves ==
    /\ \E gs \in {Replay(GameState_new, LastMovesScript, 1)} :
          /\ board = gs.board
          /\ cell_to_play = gs.cell_to_play
          /\ player_turn = gs.player_turn
    /\ position = None
    /\ result = "none"
    /\ before = None
    /\ input = None
    /\ output = Unevaluated
    /\ inner = InnerBoard_new
    /\ state = Unevaluated

NextLastMoves ==
    \E moves \in {available_moves(board, cell_to_play)} :
        \E pos \in LastMovesInputs : MakeMove(pos, moves)

SpecLastMoves == InitLastMoves /\ [][NextLastMoves]_vars

\* C28: in every reachable GameState, if available_moves() is empty then
\* get_state() is Over(r), a won or drawn game: the game never reaches a
\* state with no legal move that is still reported InProgress.
C28_NoMovesMeansDecided ==
    available_moves(board, cell_to_play) = << >>
        => GameState_get_state(Game) # InProgress

\* A make_move call with a position available_moves() holds.
LegalMove ==
    \E moves \in {available_moves(board, cell_to_play)} :
        \E pos \in LastMovesInputs : Contains(moves, pos) /\ MakeMove(pos, moves)

\* The last moves of a game in which legal moves keep being played: whenever
\* a legal move exists, one is eventually made.
SpecLastMovesFair == SpecLastMoves /\ WF_vars(LegalMove)

\* The number of leaves that have an owner.
OwnedLeaves(rb) == Cardinality({p \in MoveSet(AllPositions) : LeafAt(rb, p) # None})

\* C29: every game terminates: each successful make_move increases the
\* number of owned leaves by exactly one and no call decreases it, so at most
\* 81 calls succeed, and when legal moves keep being played a state with an
\* empty available_moves() is eventually reached.
C29_GameTerminates ==
    /\ [](result # "none" =>
            /\ OwnedLeaves(board) =
                  OwnedLeaves(Before.board) + (IF result = "Ok" THEN 1 ELSE 0)
            /\ OwnedLeaves(board) <= 81)
    /\ <>(available_moves(board, cell_to_play) = << >>)

\* The move that filled the centre board has been accepted, and no legal
\* move is left.
C29_Witness ==
    /\ result = "Ok"
    /\ OwnedLeaves(board) = OwnedLeaves(Before.board) + 1
    /\ \A i \in Cells : board[4].board[i] # None
    /\ available_moves(board, cell_to_play) = << >>


----------------------------------------------------------------------------
(* Properties of the turn order *)

\* The number of leaves `player` owns.
LeavesOf(rb, player) ==
    Cardinality({p \in MoveSet(AllPositions) : LeafAt(rb, p) = Some(player)})

\* C30: in every state reached from a new game by make_move calls, Circle
\* owns as many leaves as Cross or one more, and the active player is Circle
\* exactly when the two numbers are equal.
C30_TurnFollowsLeafCounts ==
    /\ LeavesOf(board, Circle) - LeavesOf(board, Cross) \in {0, 1}
    /\ player_turn = Circle <=> LeavesOf(board, Circle) = LeavesOf(board, Cross)

\* Circle owns one leaf more and Cross is the active player, after a refused
\* call that has left the turn where it was.
C30_Witness ==
    /\ result = "Err"
    /\ player_turn = Cross
    /\ LeavesOf(board, Circle) = LeavesOf(board, Cross) + 1
    /\ Before.player_turn = Cross

====
